---- MODULE Spec2Model ----
(***************************************************************************)
(* DSA verifying key (dsa/src/verifying_key.rs): key construction and its  *)
(* subgroup check, the verification core with its three entry points, and  *)
(* the SPKI codec of the public key.                                       *)
(*                                                                         *)
(* The big-integer capability (crypto-bigint) is modelled by its           *)
(* mathematical meaning: BoxedMontyForm::new(x, params(m)).pow(e)          *)
(* .retrieve() is x^e mod m, Odd::new(x) is None exactly when x is even,   *)
(* inv_mod is None exactly when no inverse exists, and unwrapping None     *)
(* panics.  A panic is the outcome "panic".                                *)
(*                                                                         *)
(* A BoxedUint that may be of any size (the public value y, the digest     *)
(* value z) is the sequence of its bytes, big-endian, without leading zero *)
(* bytes; zero is the empty sequence.  The components p, q, g and the      *)
(* signature values r, s are drawn from small sets and are integers.       *)
(***************************************************************************)
EXTENDS Integers, Sequences, FiniteSets

(* ------------------------------ bounds --------------------------------- *)
\* signature components are drawn from 1..MaxSig and from {q-1, q, q+1}
MaxSig == 5
\* public values are drawn from 1..MaxY and from {g, p-1, p, p+1, 2^1023}
MaxY == 9
\* digests handed to verify_prehash have at most MaxDigestLen bytes
MaxDigestLen == 2
\* messages (and absorbed hash states) have at most MaxMsgLen bytes
MaxMsgLen == 1

\* byte values the digests and messages are built from
ByteVals == {0, 1, 255}

(* --------------------------- integer helpers --------------------------- *)
Min(a, b) == IF a < b THEN a ELSE b

\* n zero bytes
RECURSIVE Zeros(_)
Zeros(n) ==
    IF n = 0 THEN <<>>
    ELSE LET half == Zeros(n \div 2)
         IN  half \o half \o (IF n % 2 = 1 THEN <<0>> ELSE <<>>)

\* BoxedUint::bits: the number of bits needed to represent x
RECURSIVE bits(_)
bits(x) == IF x = 0 THEN 0 ELSE 1 + bits(x \div 2)

\* BoxedMontyForm::new(b, params(m)).pow(e).retrieve(): b^e mod m
RECURSIVE pow(_, _, _)
pow(b, e, m) ==
    IF e = 0 THEN 1 % m
    ELSE LET h == pow(b, e \div 2, m)
             sq == (h * h) % m
         IN  IF e % 2 = 1 THEN (sq * (b % m)) % m ELSE sq

\* the value an absent Option / CtOption stands for
None == -1

\* InvMod::inv_mod: the inverse of s modulo q, or None
\* (the extended Euclidean algorithm: gcd = a * x + b * y)
RECURSIVE bezout(_, _)
bezout(a, b) ==
    IF b = 0 THEN [gcd |-> a, x |-> 1, y |-> 0]
    ELSE LET r == bezout(b, a % b)
         IN  [gcd |-> r.gcd, x |-> r.y, y |-> r.x - (a \div b) * r.y]

inv_mod(s, q) ==
    LET r == bezout(s, q)
    IN  IF r.gcd # 1 THEN None ELSE ((r.x % q) + q) % q

\* the index of the first byte that is not zero, Len(bytes) + 1 without one
first_nonzero(bytes) ==
    LET nz == {i \in 1..Len(bytes) : bytes[i] # 0}
    IN  IF nz = {} THEN Len(bytes) + 1
        ELSE CHOOSE i \in nz : \A j \in nz : i <= j

\* BoxedUint::from_be_slice: the value of the bytes read big-endian
from_be_slice(bytes) == SubSeq(bytes, first_nonzero(bytes), Len(bytes))

\* the BoxedUint of a small integer
RECURSIVE uint(_)
uint(n) == IF n = 0 THEN <<>> ELSE Append(uint(n \div 256), n % 256)

\* the small integer of a BoxedUint
RECURSIVE as_int(_)
as_int(u) ==
    IF Len(u) = 0 THEN 0
    ELSE as_int(SubSeq(u, 1, Len(u) - 1)) * 256 + u[Len(u)]

\* u mod m, as BoxedMontyForm::new(u, params(m)) and u % m reduce it
\* (the value of u is high * 256^Len(low) + low, for u = high \o low)
RECURSIVE rem(_, _)
rem(u, m) ==
    IF Len(u) = 0 THEN 0
    ELSE IF Len(u) = 1 THEN u[1] % m
    ELSE LET n == Len(u) \div 2
             high == rem(SubSeq(u, 1, Len(u) - n), m)
             low == rem(SubSeq(u, Len(u) - n + 1, Len(u)), m)
         IN  (high * pow(256, n, m) + low) % m

\* a < b on BoxedUint: the shorter is the smaller, equal lengths compare at
\* the first byte that differs
lt(a, b) ==
    IF Len(a) # Len(b) THEN Len(a) < Len(b)
    ELSE LET differ == {i \in 1..Len(a) : a[i] # b[i]}
         IN  /\ differ # {}
             /\ LET i == CHOOSE k \in differ : \A j \in differ : k <= j
                IN  a[i] < b[i]

\* crate::two()
two == uint(2)

(* ------------------------------- data ---------------------------------- *)
\* Components (p, q, g): g^q = 1 mod p, 1 < g < p, p odd, q dividing p - 1.
\* (31, 15, 2) has a composite q, so that some s < q has no inverse;
\* (1543, 257, 199) has a q of 9 bits, so that one digest byte is used, and
\* a g whose leading byte has its high bit set.
ComponentsSet ==
    { [p |-> 23, q |-> 11, g |-> 2],
      [p |-> 31, q |-> 15, g |-> 2],
      [p |-> 1543, q |-> 257, g |-> 199] }

NoComponents == [p |-> 0, q |-> 0, g |-> 0]

\* the value of a VerifyingKey that was not produced
NoKey == [components |-> NoComponents, y |-> uint(0)]

\* 2^1023, a public value of 1024 bits: its DER length takes the long form
LongY == <<128>> \o Zeros(127)

\* NonZero<BoxedUint> candidates for y
YVals(c) ==
    {uint(n) : n \in (1..MaxY) \cup {c.g, c.p - 1, c.p, c.p + 1}} \cup {LongY}

\* Signature (r, s), both NonZero<BoxedUint>
SigVals(q) == (1..MaxSig) \cup {q - 1, q, q + 1}
Signatures(q) == [r : SigVals(q), s : SigVals(q)]
NoSig == [r |-> 0, s |-> 0]

RECURSIVE SeqsUpTo(_, _)
SeqsUpTo(S, n) ==
    IF n = 0 THEN {<<>>}
    ELSE LET shorter == SeqsUpTo(S, n - 1)
         IN  shorter \cup {Append(t, b) : t \in {u \in shorter : Len(u) = n - 1}, b \in S}

Digests == SeqsUpTo(ByteVals, MaxDigestLen)
Messages == SeqsUpTo(ByteVals, MaxMsgLen)

(* ------------------------- VerifyingKey -------------------------------- *)
\* from_components without the lower bound on y
from_components_no_lower_bound(components, y) ==
    IF components.p % 2 = 0
    THEN [tag |-> "panic", key |-> NoKey]
    ELSE IF pow(rem(y, components.p), components.q, components.p) # 1
    THEN [tag |-> "Err", key |-> NoKey]
    ELSE [tag |-> "Ok", key |-> [components |-> components, y |-> y]]

\* from_components with y <= two() as the lower bound check
from_components_le_two(components, y) ==
    IF components.p % 2 = 0
    THEN [tag |-> "panic", key |-> NoKey]
    ELSE IF ~lt(two, y) \/ pow(rem(y, components.p), components.q, components.p) # 1
    THEN [tag |-> "Err", key |-> NoKey]
    ELSE [tag |-> "Ok", key |-> [components |-> components, y |-> y]]

\* VerifyingKey::from_components: [tag, key]
from_components(components, y) ==
    IF components.p % 2 = 0
    THEN [tag |-> "panic", key |-> NoKey]
    ELSE IF lt(y, two) \/ pow(rem(y, components.p), components.q, components.p) # 1
    THEN [tag |-> "Err", key |-> NoKey]
    ELSE [tag |-> "Ok", key |-> [components |-> components, y |-> y]]

\* VerifyingKey::components
components_of(key) == key.components

\* VerifyingKey::y
y_of(key) == key.y

\* v when verify_prehashed did not get to compute it
NoV == -1

\* z_len that takes the whole digest
z_len_full(q, hash) == Len(hash)

\* min(n, block_size) of verify_prehashed
z_len(q, hash) == Min(bits(q) \div 8, Len(hash))

\* verify_prehashed whose range check lets r = q and s = q through
verify_prehashed_gt(key, hash, signature) ==
    LET p == components_of(key).p
        q == components_of(key).q
        g == components_of(key).g
        r == signature.r
        s == signature.s
        y == y_of(key)
    IN  IF r > q \/ s > q
        THEN [ret |-> "Some(false)", v |-> NoV]
        ELSE LET w == inv_mod(s, q) IN
        IF w = None
        THEN [ret |-> "None", v |-> NoV]
        ELSE LET z  == from_be_slice(SubSeq(hash, 1, z_len(q, hash)))
                 u1 == (rem(z, q) * w) % q
                 u2 == (r * w) % q
             IN  IF u1 % 2 = 0 \/ u2 % 2 = 0
                 THEN [ret |-> "panic", v |-> NoV]
                 ELSE LET v == ((pow(g, p, u1) * pow(rem(y, u2), p, u2)) % p) % q
                      IN  [ret |-> IF v = r THEN "Some(true)" ELSE "Some(false)",
                           v |-> v]

\* VerifyingKey::verify_prehashed: [ret, v], ret being the Option<bool> or "panic"
verify_prehashed(key, hash, signature) ==
    LET p == components_of(key).p
        q == components_of(key).q
        g == components_of(key).g
        r == signature.r
        s == signature.s
        y == y_of(key)
    IN  IF r >= q \/ s >= q
        THEN [ret |-> "Some(false)", v |-> NoV]
        ELSE LET w == inv_mod(s, q) IN
        IF w = None
        THEN [ret |-> "None", v |-> NoV]
        ELSE LET z  == from_be_slice(SubSeq(hash, 1, z_len(q, hash)))
                 u1 == (rem(z, q) * w) % q
                 u2 == (r * w) % q
             IN  IF u1 % 2 = 0 \/ u2 % 2 = 0
                 THEN [ret |-> "panic", v |-> NoV]
                 ELSE LET v == ((pow(g, p, u1) * pow(rem(y, u2), p, u2)) % p) % q
                      IN  [ret |-> IF v = r THEN "Some(true)" ELSE "Some(false)",
                           v |-> v]

(* ------------------------------ SHA-256 -------------------------------- *)
\* A 32-bit word is <<hi, lo>>, its two 16-bit halves.

\* bitwise exclusive or, and conjunction, of two bits, of two 4-bit digits
\* and of two 16-bit halves
XorBit == <<<<0, 1>>, <<1, 0>>>>
AndBit == <<<<0, 0>>, <<0, 1>>>>

Digitwise(op, a, b) ==
    op[((a \div 8) % 2) + 1][((b \div 8) % 2) + 1] * 8
        + op[((a \div 4) % 2) + 1][((b \div 4) % 2) + 1] * 4
        + op[((a \div 2) % 2) + 1][((b \div 2) % 2) + 1] * 2
        + op[(a % 2) + 1][(b % 2) + 1]

XorDigit == [a \in 0..15 |-> [b \in 0..15 |-> Digitwise(XorBit, a, b)]]
AndDigit == [a \in 0..15 |-> [b \in 0..15 |-> Digitwise(AndBit, a, b)]]

Halfwise(op, a, b) ==
    op[a \div 4096][b \div 4096] * 4096
        + op[(a \div 256) % 16][(b \div 256) % 16] * 256
        + op[(a \div 16) % 16][(b \div 16) % 16] * 16
        + op[a % 16][b % 16]

Xor16(a, b) == Halfwise(XorDigit, a, b)
And16(a, b) == Halfwise(AndDigit, a, b)

XorWord(x, y) == <<Xor16(x[1], y[1]), Xor16(x[2], y[2])>>
AndWord(x, y) == <<And16(x[1], y[1]), And16(x[2], y[2])>>
NotWord(x) == <<65535 - x[1], 65535 - x[2]>>

\* addition modulo 2^32
AddWord(x, y) ==
    LET lo == x[2] + y[2]
        hi == x[1] + y[1] + (lo \div 65536)
    IN  <<hi % 65536, lo % 65536>>

\* rotation and shift to the right by n bits
RotrLow(x, n) ==
    IF n = 0 THEN x
    ELSE <<(x[1] \div (2 ^ n)) + (x[2] % (2 ^ n)) * (2 ^ (16 - n)),
           (x[2] \div (2 ^ n)) + (x[1] % (2 ^ n)) * (2 ^ (16 - n))>>

RotrWord(x, n) ==
    IF n >= 16 THEN RotrLow(<<x[2], x[1]>>, n - 16) ELSE RotrLow(x, n)

ShrWord(x, n) ==
    IF n >= 16 THEN <<0, x[1] \div (2 ^ (n - 16))>>
    ELSE <<x[1] \div (2 ^ n),
           (x[2] \div (2 ^ n)) + (x[1] % (2 ^ n)) * (2 ^ (16 - n))>>

\* the functions of FIPS 180-4, section 4.1.2
Ch(x, y, z) == XorWord(AndWord(x, y), AndWord(NotWord(x), z))
Maj(x, y, z) == XorWord(XorWord(AndWord(x, y), AndWord(x, z)), AndWord(y, z))
BigSigma0(x) == XorWord(XorWord(RotrWord(x, 2), RotrWord(x, 13)), RotrWord(x, 22))
BigSigma1(x) == XorWord(XorWord(RotrWord(x, 6), RotrWord(x, 11)), RotrWord(x, 25))
SmallSigma0(x) == XorWord(XorWord(RotrWord(x, 7), RotrWord(x, 18)), ShrWord(x, 3))
SmallSigma1(x) == XorWord(XorWord(RotrWord(x, 17), RotrWord(x, 19)), ShrWord(x, 10))

\* the round constants and the initial hash value
Sha256K ==
    << <<17034, 12184>>, <<28983, 17553>>, <<46528, 64463>>, <<59829, 56229>>,
       <<14678, 49755>>, <<23025, 4593>>, <<37439, 33444>>, <<43804, 24277>>,
       <<55303, 43672>>, <<4739, 23297>>, <<9265, 34238>>, <<21772, 32195>>,
       <<29374, 23924>>, <<32990, 45566>>, <<39900, 1703>>, <<49563, 61812>>,
       <<58523, 27073>>, <<61374, 18310>>, <<4033, 40390>>, <<9228, 41420>>,
       <<11753, 11375>>, <<19060, 33962>>, <<23728, 43484>>, <<30457, 35034>>,
       <<38974, 20818>>, <<43057, 50797>>, <<45059, 10184>>, <<48985, 32711>>,
       <<50912, 3059>>, <<54695, 37191>>, <<1738, 25425>>, <<5161, 10599>>,
       <<10167, 2693>>, <<11803, 8504>>, <<19756, 28156>>, <<21304, 3347>>,
       <<25866, 29524>>, <<30314, 2747>>, <<33218, 51502>>, <<37490, 11397>>,
       <<41663, 59553>>, <<43034, 26187>>, <<49739, 35696>>, <<51052, 20899>>,
       <<53650, 59417>>, <<54937, 1572>>, <<62478, 13701>>, <<4202, 41072>>,
       <<6564, 49430>>, <<7735, 27656>>, <<10056, 30540>>, <<13488, 48309>>,
       <<14620, 3251>>, <<20184, 43594>>, <<23452, 51791>>, <<26670, 28659>>,
       <<29839, 33518>>, <<30885, 25455>>, <<33992, 30740>>, <<36039, 520>>,
       <<37054, 65530>>, <<42064, 27883>>, <<48889, 41975>>, <<50801, 30962>> >>

Sha256H0 ==
    << <<27145, 58983>>, <<47975, 44677>>, <<15470, 62322>>, <<42319, 62778>>,
       <<20750, 21119>>, <<39685, 26764>>, <<8067, 55723>>, <<23520, 52505>> >>

\* the message with its padding: 0x80, zeros, the bit length in 8 bytes

RECURSIVE LengthBytes(_, _)
LengthBytes(x, n) ==
    IF n = 0 THEN <<>> ELSE Append(LengthBytes(x \div 256, n - 1), x % 256)

Sha256Pad(msg) ==
    msg \o <<128>> \o Zeros((119 - Len(msg)) % 64) \o LengthBytes(8 * Len(msg), 8)

\* the message schedule of a block of 64 bytes: the 16 words of the block,
\* and 48 words that each continue the words before
Sha256Word(block, i) ==
    <<block[4 * i - 3] * 256 + block[4 * i - 2],
      block[4 * i - 1] * 256 + block[4 * i]>>

Sha256Words(block) ==
    <<Sha256Word(block, 1), Sha256Word(block, 2), Sha256Word(block, 3),
      Sha256Word(block, 4), Sha256Word(block, 5), Sha256Word(block, 6),
      Sha256Word(block, 7), Sha256Word(block, 8), Sha256Word(block, 9),
      Sha256Word(block, 10), Sha256Word(block, 11), Sha256Word(block, 12),
      Sha256Word(block, 13), Sha256Word(block, 14), Sha256Word(block, 15),
      Sha256Word(block, 16)>>

Sha256Continue(w) ==
    LET t == Len(w) + 1
    IN  Append(w, AddWord(AddWord(SmallSigma1(w[t - 2]), w[t - 7]),
                          AddWord(SmallSigma0(w[t - 15]), w[t - 16])))

\* F of the value of x, x being computed once, before F is entered
Then(F(_), x) == CHOOSE y \in {F(v) : v \in {x}} : TRUE

\* w continued by k words
RECURSIVE Sha256Extend(_, _)
Sha256Extend(w, k) ==
    IF k = 1 THEN Sha256Continue(w)
    ELSE Then(LAMBDA half : Sha256Extend(half, k - (k \div 2)),
              Sha256Extend(w, k \div 2))

Sha256Schedule(block) == Sha256Extend(Sha256Words(block), 48)

\* round t on the working variables s = <<a, b, c, d, e, f, g, h>>
Sha256Round(s, w, t) ==
    Then(LAMBDA t1 :
            <<AddWord(t1, AddWord(BigSigma0(s[1]), Maj(s[1], s[2], s[3]))),
              s[1], s[2], s[3], AddWord(s[4], t1), s[5], s[6], s[7]>>,
         AddWord(AddWord(AddWord(s[8], BigSigma1(s[5])),
                         AddWord(Ch(s[5], s[6], s[7]), Sha256K[t])), w[t]))

\* the rounds from..to
RECURSIVE Sha256Rounds(_, _, _, _)
Sha256Rounds(s, w, from, to) ==
    IF from = to THEN Sha256Round(s, w, from)
    ELSE Then(LAMBDA half : Sha256Rounds(half, w, ((from + to) \div 2) + 1, to),
              Sha256Rounds(s, w, from, (from + to) \div 2))

Sha256Compress(h, block) ==
    Then(LAMBDA w :
            Then(LAMBDA s :
                    <<AddWord(h[1], s[1]), AddWord(h[2], s[2]), AddWord(h[3], s[3]),
                      AddWord(h[4], s[4]), AddWord(h[5], s[5]), AddWord(h[6], s[6]),
                      AddWord(h[7], s[7]), AddWord(h[8], s[8])>>,
                 Sha256Rounds(h, w, 1, 64)),
         Sha256Schedule(block))

\* the blocks of the padded message, one after the other
RECURSIVE Sha256Blocks(_, _)
Sha256Blocks(h, padded) ==
    IF Len(padded) = 0 THEN h
    ELSE Then(LAMBDA next : Sha256Blocks(next, SubSeq(padded, 65, Len(padded))),
              Sha256Compress(h, SubSeq(padded, 1, 64)))

\* the four bytes of a word, big-endian
WordBytes(x) == <<x[1] \div 256, x[1] % 256, x[2] \div 256, x[2] % 256>>

\* SHA-256 of a byte string: 32 bytes
Sha256(msg) ==
    Then(LAMBDA h :
            WordBytes(h[1]) \o WordBytes(h[2]) \o WordBytes(h[3]) \o WordBytes(h[4])
                \o WordBytes(h[5]) \o WordBytes(h[6]) \o WordBytes(h[7])
                \o WordBytes(h[8]),
         Sha256Blocks(Sha256H0, Sha256Pad(msg)))

(* ------------------------------ digest --------------------------------- *)
\* sha2::Sha256::new_with_prefix: the hash state that absorbed msg
new_with_prefix(msg) == msg

\* the digests of the messages the callers draw, computed once
Sha256Table == [m \in Messages |-> Sha256(m)]

\* Digest::finalize of a Sha256 state: the SHA-256 of what it absorbed
finalize(digest) ==
    IF digest \in DOMAIN Sha256Table THEN Sha256Table[digest] ELSE Sha256(digest)

(* --------------------------- entry points ------------------------------ *)
\* verify_prehash that rejects only Some(false)
verify_prehash_none_ok(key, prehash, signature) ==
    LET res == verify_prehashed(key, prehash, signature) IN
    IF res.ret = "panic" THEN "panic"
    ELSE IF res.ret = "Some(false)" THEN "Err"
    ELSE "Ok"

\* PrehashVerifier::verify_prehash: "Ok", "Err" or "panic"
verify_prehash(key, prehash, signature) ==
    LET res == verify_prehashed(key, prehash, signature) IN
    IF res.ret = "panic" THEN "panic"
    ELSE IF res.ret = "Some(true)" THEN "Ok"
    ELSE "Err"

\* DigestVerifier::verify_digest: "Ok", "Err" or "panic"
verify_digest(key, digest, signature) ==
    LET hash == finalize(digest)
        res == verify_prehashed(key, hash, signature)
    IN  IF res.ret = "panic" THEN "panic"
        ELSE IF res.ret = "None" THEN "Err"
        ELSE IF res.ret # "Some(true)" THEN "Err"
        ELSE "Ok"

\* Verifier::verify: "Ok", "Err" or "panic"
verify(key, msg, signature) ==
    verify_digest(key, new_with_prefix(msg), signature)

(* ------------------------------ DER ------------------------------------ *)
\* bytes of one limb of a BoxedUint
LimbBytes == 8

\* BoxedUint::to_be_bytes: every byte of the value's limbs, big-endian (a
\* value has at least one limb)
to_be_bytes(u) ==
    LET limbs == IF Len(u) = 0 THEN 1 ELSE (Len(u) + LimbBytes - 1) \div LimbBytes
    IN  Zeros(limbs * LimbBytes - Len(u)) \o u

\* der uint::strip_leading_zeroes: leading zero bytes removed, one byte kept
strip_leading_zeroes(bytes) ==
    IF Len(bytes) = 0 THEN bytes
    ELSE SubSeq(bytes, Min(first_nonzero(bytes), Len(bytes)), Len(bytes))

\* UintRef::new
UintRef_new(bytes) == strip_leading_zeroes(bytes)

\* UintRef::value_len: one more byte when the high bit is set
value_len(inner) == Len(inner) + (IF inner[1] >= 128 THEN 1 ELSE 0)

\* the ASN.1 tags used
TagInteger == 2
TagSequence == 48

\* der Length::initial_octet: the first octet of the long form of a length,
\* 0 for a length that takes the short form
initial_octet(n) ==
    IF n < 128 THEN 0
    ELSE IF n < 256 THEN 129
    ELSE IF n < 65536 THEN 130
    ELSE IF n < 16777216 THEN 131
    ELSE 132

\* der Length::encode: short form below 128, else 0x80 + the number of
\* length octets, and the length in that many octets
Length_encode(n) ==
    IF n < 128 THEN <<n>>
    ELSE <<initial_octet(n)>> \o LengthBytes(n, initial_octet(n) - 128)

\* der Length::decode at the head of bytes: [ok, len, size], size being the
\* number of octets the length takes
Length_decode(bytes) ==
    LET bad == [ok |-> FALSE, len |-> 0, size |-> 0] IN
    IF Len(bytes) < 1 THEN bad
    ELSE IF bytes[1] < 128 THEN [ok |-> TRUE, len |-> bytes[1], size |-> 1]
    ELSE IF bytes[1] = 128 \/ bytes[1] > 132 THEN bad
    ELSE LET nbytes == bytes[1] - 128 IN
         IF Len(bytes) < 1 + nbytes THEN bad
         \* a length above Length::MAX = 0xfff_ffff
         ELSE IF nbytes = 4 /\ bytes[2] > 15 THEN bad
         ELSE LET len == as_int(SubSeq(bytes, 2, 1 + nbytes)) IN
              IF initial_octet(len) # bytes[1] THEN bad
              ELSE [ok |-> TRUE, len |-> len, size |-> 1 + nbytes]

\* UintRef::to_der: tag, length, value
UintRef_to_der(inner) ==
    <<TagInteger>> \o Length_encode(value_len(inner))
        \o (IF inner[1] >= 128 THEN <<0>> ELSE <<>>) \o inner

NoBytes == <<>>

\* an INTEGER that was not decoded
NoUintRef == [ok |-> FALSE, inner |-> NoBytes, rest |-> NoBytes]

\* UintRef::decode_value: the value of the INTEGER at the head of bytes whose
\* header has the decoded length: [ok, inner, rest]
UintRef_decode_value(bytes, length) ==
    IF ~length.ok \/ Len(bytes) < 1 + length.size + length.len THEN NoUintRef
    ELSE LET value == SubSeq(bytes, 2 + length.size, 1 + length.size + length.len)
             rest == SubSeq(bytes, 2 + length.size + length.len, Len(bytes))
         IN  IF length.len = 0 THEN NoUintRef
             ELSE IF length.len = 1 /\ value[1] = 0
                  THEN [ok |-> TRUE, inner |-> value, rest |-> rest]
             ELSE IF value[1] = 0 /\ value[2] < 128 THEN NoUintRef
             ELSE IF value[1] = 0
                  THEN [ok |-> TRUE, inner |-> UintRef_new(Tail(value)), rest |-> rest]
             ELSE IF value[1] >= 128 THEN NoUintRef
             ELSE [ok |-> TRUE, inner |-> UintRef_new(value), rest |-> rest]

\* UintRef::decode: the INTEGER at the head of bytes: [ok, inner, rest]
UintRef_decode(bytes) ==
    IF Len(bytes) < 1 THEN NoUintRef
    ELSE IF bytes[1] # TagInteger THEN NoUintRef
    ELSE UintRef_decode_value(bytes, Length_decode(Tail(bytes)))

\* the end of Decode::from_der: nothing may follow the value: [ok, inner]
finish(d) ==
    IF d.ok /\ d.rest = NoBytes
    THEN [ok |-> TRUE, inner |-> d.inner]
    ELSE [ok |-> FALSE, inner |-> NoBytes]

\* UintRef::from_der: the whole input is one INTEGER: [ok, inner]
UintRef_from_der(bytes) == finish(UintRef_decode(bytes))

\* Components::to_der: the sequence of the three integers p, q, g
Components_to_der(c) ==
    LET body == UintRef_to_der(UintRef_new(to_be_bytes(uint(c.p))))
                \o UintRef_to_der(UintRef_new(to_be_bytes(uint(c.q))))
                \o UintRef_to_der(UintRef_new(to_be_bytes(uint(c.g))))
    IN  <<TagSequence>> \o Length_encode(Len(body)) \o body

\* the components of the three decoded integers, nothing following them
Components_of(dp, dq, dg) ==
    IF dp.ok /\ dq.ok /\ dg.ok /\ dg.rest = NoBytes
    THEN [ok |-> TRUE,
          components |-> [p |-> as_int(dp.inner), q |-> as_int(dq.inner),
                          g |-> as_int(dg.inner)]]
    ELSE [ok |-> FALSE, components |-> NoComponents]

\* the integers q and g decoded after p, and p decoded first
Components_decode_g(dp, dq) == Components_of(dp, dq, UintRef_decode(dq.rest))
Components_decode_q(dp) == Components_decode_g(dp, UintRef_decode(dp.rest))
Components_decode_p(body) == Components_decode_q(UintRef_decode(body))

\* the body of the SEQUENCE at bytes whose header has the decoded length
Components_decode_value(bytes, length) ==
    IF ~length.ok THEN [ok |-> FALSE, components |-> NoComponents]
    ELSE IF length.len # Len(bytes) - 1 - length.size
    THEN [ok |-> FALSE, components |-> NoComponents]
    ELSE Components_decode_p(SubSeq(bytes, 2 + length.size, Len(bytes)))

\* Components::decode: [ok, components]
Components_decode(bytes) ==
    IF Len(bytes) < 1 THEN [ok |-> FALSE, components |-> NoComponents]
    ELSE IF bytes[1] # TagSequence THEN [ok |-> FALSE, components |-> NoComponents]
    ELSE Components_decode_value(bytes, Length_decode(Tail(bytes)))

\* crate::OID, the DSA object identifier, and another algorithm's
OID == "1.2.840.10040.4.1"
OtherOID == "1.2.840.113549.1.1.1"

\* AlgorithmIdentifierRef parameters: Option<AnyRef>
NoParameters == [some |-> FALSE, der |-> NoBytes]
SomeParameters(der) == [some |-> TRUE, der |-> der]

\* a BitStringRef that was not produced
NoBitString == [unused_bits |-> 0, bytes |-> NoBytes]

\* BitStringRef::new: [ok, value], the value holding the unused bits of the
\* last byte and the bytes; more than 7 unused bits, or unused bits of no
\* byte, are an error
BitStringRef_new(unused_bits, bytes) ==
    IF unused_bits > 7 \/ (unused_bits # 0 /\ Len(bytes) = 0)
    THEN [ok |-> FALSE, value |-> NoBitString]
    ELSE [ok |-> TRUE, value |-> [unused_bits |-> unused_bits, bytes |-> bytes]]

\* a SubjectPublicKeyInfoRef that was not produced
NoDocument ==
    [oid |-> "none", parameters |-> NoParameters, subject_public_key |-> NoBitString]

\* to_public_key_der that puts the bytes of y into the bit string as they are
to_public_key_der_raw(k) ==
    LET parameters == Components_to_der(k.components)
        y_bytes == to_be_bytes(k.y)
        subject_public_key == BitStringRef_new(0, y_bytes)
    IN  IF ~subject_public_key.ok
        THEN [tag |-> "Err", document |-> NoDocument]
        ELSE [tag |-> "Ok",
              document |-> [oid |-> OID, parameters |-> SomeParameters(parameters),
                            subject_public_key |-> subject_public_key.value]]

\* EncodePublicKey::to_public_key_der: [tag, document], the document being
\* the SubjectPublicKeyInfo of the key
to_public_key_der(k) ==
    LET parameters == Components_to_der(k.components)
        y_bytes == to_be_bytes(k.y)
        y == UintRef_new(y_bytes)
        public_key == UintRef_to_der(y)
        subject_public_key == BitStringRef_new(0, public_key)
    IN  IF ~subject_public_key.ok
        THEN [tag |-> "Err", document |-> NoDocument]
        ELSE [tag |-> "Ok",
              document |-> [oid |-> OID, parameters |-> SomeParameters(parameters),
                            subject_public_key |-> subject_public_key.value]]

\* try_from without the check of the algorithm identifier
try_from_any_oid(value) ==
    IF ~value.parameters.some
    THEN [tag |-> "Err(AlgorithmParametersMissing)", key |-> NoKey]
    ELSE LET components == Components_decode(value.parameters.der) IN
    IF ~components.ok
    THEN [tag |-> "Err(Asn1)", key |-> NoKey]
    ELSE IF value.subject_public_key.unused_bits # 0
    THEN [tag |-> "Err(KeyMalformed)", key |-> NoKey]
    ELSE LET y == UintRef_from_der(value.subject_public_key.bytes) IN
    IF ~y.ok
    THEN [tag |-> "Err(Asn1)", key |-> NoKey]
    ELSE LET yv == from_be_slice(y.inner) IN
    IF yv = uint(0)
    THEN [tag |-> "panic", key |-> NoKey]
    ELSE LET res == from_components(components.components, yv) IN
         IF res.tag = "Err" THEN [tag |-> "Err(KeyMalformed)", key |-> NoKey]
         ELSE res

\* TryFrom<SubjectPublicKeyInfoRef>::try_from: [tag, key]
try_from(value) ==
    IF value.oid # OID
    THEN [tag |-> "Err(OidUnknown)", key |-> NoKey]
    ELSE IF ~value.parameters.some
    THEN [tag |-> "Err(AlgorithmParametersMissing)", key |-> NoKey]
    ELSE LET components == Components_decode(value.parameters.der) IN
    IF ~components.ok
    THEN [tag |-> "Err(Asn1)", key |-> NoKey]
    ELSE IF value.subject_public_key.unused_bits # 0
    THEN [tag |-> "Err(KeyMalformed)", key |-> NoKey]
    ELSE LET y == UintRef_from_der(value.subject_public_key.bytes) IN
    IF ~y.ok
    THEN [tag |-> "Err(Asn1)", key |-> NoKey]
    ELSE LET yv == from_be_slice(y.inner) IN
    IF yv = uint(0)
    THEN [tag |-> "panic", key |-> NoKey]
    ELSE LET res == from_components(components.components, yv) IN
         IF res.tag = "Err" THEN [tag |-> "Err(KeyMalformed)", key |-> NoKey]
         ELSE res

\* public-key payloads that are no canonical INTEGER: not minimal, negative,
\* an OCTET STRING, trailing data, empty
MalformedPayloads ==
    { <<2, 2, 0, 1>>, <<2, 1, 128>>, <<4, 1, 2>>, <<2, 1, 2, 0>>, <<>> }

\* public values a container may carry with the parameters c: zero and the
\* candidates of c
DocumentYVals(c) == {uint(0)} \cup YVals(c)

\* public-key bit strings: unused bits and a payload that BitStringRef::new
\* accepts
BitStrings(payloads) ==
    {BitStringRef_new(a[1], a[2]).value :
        a \in {b \in {0, 1} \X payloads : BitStringRef_new(b[1], b[2]).ok}}

\* the containers a caller may be handed
Documents ==
    UNION {
        [oid : {OID, OtherOID},
         parameters : {SomeParameters(Components_to_der(c))},
         subject_public_key :
            BitStrings(MalformedPayloads
                \cup {UintRef_to_der(UintRef_new(to_be_bytes(y))) : y \in DocumentYVals(c)})]
        : c \in ComponentsSet }
    \cup
        [oid : {OID, OtherOID},
         parameters : {NoParameters, SomeParameters(<<TagSequence, 0>>)},
         subject_public_key :
            BitStrings({UintRef_to_der(UintRef_new(to_be_bytes(uint(y)))) : y \in 0..2})]

(* --------------------------- state machine ----------------------------- *)
VARIABLES
    key,    \* the VerifyingKey the caller holds, or NoKey
    last    \* the call that has returned and is not yet taken: its name,
            \* its arguments and what it returned

vars == <<key, last>>

NoCall ==
    [op |-> "none", components |-> NoComponents, y |-> uint(0), bytes |-> NoBytes,
     signature |-> NoSig, value |-> NoDocument, ret |-> "none", v |-> NoV,
     out |-> NoKey]

Init ==
    /\ key = NoKey
    /\ last = NoCall

\* the caller constructs a key from components and a public value
FromComponents ==
    /\ last = NoCall
    /\ \E c \in ComponentsSet : \E y \in YVals(c) :
        LET res == from_components(c, y) IN
        /\ key' = IF res.tag = "Ok" THEN res.key ELSE key
        /\ last' = [NoCall EXCEPT !.op = "from_components", !.components = c,
                                  !.y = y, !.ret = res.tag, !.out = res.key]

\* the caller verifies a signature over a pre-computed digest
VerifyPrehash ==
    /\ last = NoCall
    /\ key # NoKey
    /\ \E prehash \in Digests : \E signature \in Signatures(key.components.q) :
        LET res == verify_prehashed(key, prehash, signature) IN
        last' = [NoCall EXCEPT !.op = "verify_prehash", !.bytes = prehash,
                               !.signature = signature,
                               !.ret = verify_prehash(key, prehash, signature),
                               !.v = res.v]
    /\ UNCHANGED key

\* the caller verifies a signature with a hash state it has fed
VerifyDigest ==
    /\ last = NoCall
    /\ key # NoKey
    /\ \E digest \in Messages : \E signature \in Signatures(key.components.q) :
        last' = [NoCall EXCEPT !.op = "verify_digest", !.bytes = digest,
                               !.signature = signature,
                               !.ret = verify_digest(key, digest, signature)]
    /\ UNCHANGED key

\* the caller verifies a signature over a raw message
Verify ==
    /\ last = NoCall
    /\ key # NoKey
    /\ \E msg \in Messages : \E signature \in Signatures(key.components.q) :
        last' = [NoCall EXCEPT !.op = "verify", !.bytes = msg,
                               !.signature = signature,
                               !.ret = verify(key, msg, signature)]
    /\ UNCHANGED key

\* the caller encodes its key
ToPublicKeyDer ==
    /\ last = NoCall
    /\ key # NoKey
    /\ LET res == to_public_key_der(key) IN
        last' = [NoCall EXCEPT !.op = "to_public_key_der",
                               !.value = res.document, !.ret = res.tag]
    /\ UNCHANGED key

\* the caller decodes a container it was handed
TryFrom ==
    /\ last = NoCall
    /\ \E value \in Documents :
        LET res == try_from(value) IN
        /\ key' = IF res.tag = "Ok" THEN res.key ELSE key
        /\ last' = [NoCall EXCEPT !.op = "try_from", !.value = value,
                                  !.ret = res.tag, !.out = res.key]

\* the caller decodes the container that to_public_key_der has just returned
TryFromEncoded ==
    /\ last.op = "to_public_key_der"
    /\ last.ret = "Ok"
    /\ LET res == try_from(last.value) IN
        /\ key' = IF res.tag = "Ok" THEN res.key ELSE key
        /\ last' = [NoCall EXCEPT !.op = "try_from_encoded", !.value = last.value,
                                  !.ret = res.tag, !.out = res.key]

\* the caller takes what the call returned
Return ==
    /\ last # NoCall
    /\ last' = NoCall
    /\ UNCHANGED key

Next ==
    \/ FromComponents
    \/ VerifyPrehash
    \/ VerifyDigest
    \/ Verify
    \/ ToPublicKeyDer
    \/ TryFrom
    \/ TryFromEncoded
    \/ Return

Spec == Init /\ [][Next]_vars

(* ------------------------------ claims --------------------------------- *)
\* b^e mod m, the reference the claims are stated with:
\* b^0 = 1, b^(2k) = (b^2)^k, b^(2k+1) = b * b^(2k)
RECURSIVE ModExp(_, _, _)
ModExp(b, e, m) ==
    IF e = 0 THEN 1 % m
    ELSE IF e % 2 = 0 THEN ModExp(((b % m) * (b % m)) % m, e \div 2, m)
    ELSE ((b % m) * ModExp(b, e - 1, m)) % m

\* s has an inverse modulo q
Invertible(s, q) == \E w \in 0..(q - 1) : (s * w) % q = 1 % q

VerifyOps == {"verify", "verify_prehash", "verify_digest"}

\* the value of the bytes u is below 2
BelowTwo(u) == \A i \in 1..Len(u) : u[i] = 0 \/ (i = Len(u) /\ u[i] = 1)

\* y^q mod p for the bytes y and the components c
YPowQ(y, c) == ModExp(rem(y, c.p), c.q, c.p)

\* the digest bytes the last verification call worked on
LastHash == IF last.op = "verify_prehash" THEN last.bytes ELSE finalize(last.bytes)

\* the leftmost min(n, len) bytes of a digest
Leading(hash, n) == SubSeq(hash, 1, Min(n, Len(hash)))

\* v of the DSA verification equation, u1 and u2 being the exponents and p
\* the modulus
DsaV(k, hash, signature) ==
    LET q == k.components.q
        pp == k.components.p
        w == CHOOSE x \in 0..(q - 1) : (signature.s * x) % q = 1 % q
        z == as_int(Leading(hash, bits(q) \div 8))
        u1 == (z * w) % q
        u2 == (signature.r * w) % q
    IN  ((ModExp(k.components.g, u1, pp) * ModExp(rem(k.y, pp), u2, pp)) % pp) % q

\* C1: for a signature with 0 < r < q and 0 < s < q (s invertible), a
\* verification call returns valid iff v == r, v being computed with u1 and u2
\* as the exponents and p as the modulus.
C1_ValidIffDsaEquation ==
    (/\ last.op \in VerifyOps
     /\ last.signature.r < key.components.q
     /\ last.signature.s < key.components.q
     /\ Invertible(last.signature.s, key.components.q))
    => ((last.ret = "Ok") <=> (DsaV(key, LastHash, last.signature) = last.signature.r))

\* C2: every verification call ends with one of the outcomes valid or
\* invalid; none aborts.
C2_VerifyNeverAborts ==
    last.op \in VerifyOps => last.ret \in {"Ok", "Err"}

\* C3: a signature whose r or s is outside [1, q), or whose s has no inverse
\* modulo q, is reported invalid, whatever the other component and the
\* digest are.
C3_OutOfRangeIsInvalid ==
    (/\ last.op \in VerifyOps
     /\ \/ last.signature.r < 1
        \/ last.signature.s < 1
        \/ last.signature.r >= key.components.q
        \/ last.signature.s >= key.components.q
        \/ ~Invertible(last.signature.s, key.components.q))
    => last.ret = "Err"

\* C3 witness: an s inside the range with no inverse modulo q, and an r
\* inside the range, were reported invalid.
C3_Witness ==
    /\ last.op = "verify_prehash"
    /\ last.signature.r < key.components.q
    /\ last.signature.s < key.components.q
    /\ ~Invertible(last.signature.s, key.components.q)
    /\ last.ret = "Err"

\* C4: from_components returns an error and no key when y < 2 or
\* y^q mod p # 1, and every key that exists has y >= 2 and y^q mod p = 1.
C4_InvalidYRejected ==
    /\ (/\ last.op = "from_components"
        /\ BelowTwo(last.y) \/ YPowQ(last.y, last.components) # 1)
       => (last.ret = "Err" /\ last.out = NoKey)
    /\ key # NoKey
       => (~BelowTwo(key.y) /\ YPowQ(key.y, key.components) = 1)

\* C4 witness: a y >= 2 outside the subgroup was rejected while a key exists.
C4_Witness ==
    /\ last.op = "from_components"
    /\ ~BelowTwo(last.y)
    /\ YPowQ(last.y, last.components) # 1
    /\ last.ret = "Err"
    /\ key # NoKey

\* C5: for y >= 2 with y^q mod p = 1, from_components succeeds and the key's
\* accessors give back the inputs.
C5_ValidYAccepted ==
    (/\ last.op = "from_components"
     /\ ~BelowTwo(last.y)
     /\ YPowQ(last.y, last.components) = 1)
    => (/\ last.ret = "Ok"
        /\ y_of(last.out) = last.y
        /\ components_of(last.out) = last.components
        /\ key = last.out)

\* C5 witness: the smallest admissible public value, 2, was accepted.
C5_Witness ==
    /\ last.op = "from_components"
    /\ last.y = <<2>>
    /\ last.ret = "Ok"
    /\ key.y = <<2>>

\* C6: two digests that agree on their leftmost min(bitlen(q)/8, len) bytes
\* give the same v and the same outcome under the same key and signature.
C6_TrailingBytesIgnored ==
    last.op = "verify_prehash" =>
        \A d \in Digests :
            Leading(d, bits(key.components.q) \div 8)
                = Leading(last.bytes, bits(key.components.q) \div 8)
            => /\ verify_prehashed(key, d, last.signature).v = last.v
               /\ verify_prehash(key, d, last.signature) = last.ret

\* C6 witness: v was computed from a digest longer than bitlen(q)/8 >= 1
\* bytes, and another digest agrees with it on the leading bytes.
C6_Witness ==
    /\ last.op = "verify_prehash"
    /\ last.v # NoV
    /\ bits(key.components.q) \div 8 >= 1
    /\ Len(last.bytes) > bits(key.components.q) \div 8
    /\ \E d \in Digests :
        /\ d # last.bytes
        /\ Leading(d, bits(key.components.q) \div 8)
            = Leading(last.bytes, bits(key.components.q) \div 8)

\* C7: verify(message), verify_digest(state that absorbed message) and
\* verify_prehash(its digest) return the same outcome.
C7_EntryPointsAgree ==
    /\ last.op = "verify" =>
        /\ last.ret = verify_digest(key, new_with_prefix(last.bytes), last.signature)
        /\ last.ret = verify_prehash(key, finalize(new_with_prefix(last.bytes)),
                                     last.signature)
    /\ last.op = "verify_digest" =>
        last.ret = verify_prehash(key, finalize(last.bytes), last.signature)

\* C7 witness: verify_digest returned where the core reports no result.
C7_Witness ==
    /\ last.op = "verify_digest"
    /\ verify_prehashed(key, finalize(last.bytes), last.signature).ret = "None"
    /\ last.ret = "Err"

\* C8: decoding the container that to_public_key_der returned for a key
\* succeeds and yields a key equal to it.
C8_RoundTrip ==
    [][last'.op = "try_from_encoded"
        => (/\ last'.ret = "Ok"
            /\ last'.out = key
            /\ last'.out.components = key.components
            /\ last'.out.y = key.y
            /\ key' = key)]_vars

\* C8 witness: a key whose y has a leading byte with the high bit set, and
\* whose INTEGER has a length in the long form, was encoded and decoded.
C8_Witness ==
    /\ last.op = "try_from_encoded"
    /\ last.ret = "Ok"
    /\ key.y[1] >= 128
    /\ Len(key.y) >= 128

\* C9: a container with well-formed parameters and payload whose y fails key
\* validation (y < 2, y = 0 included, or y^q mod p # 1) is answered with the
\* malformed-key error.
C9_InvalidYIsKeyMalformed ==
    (/\ last.op = "try_from"
     /\ last.value.oid = OID
     /\ last.value.parameters.some
     /\ Components_decode(last.value.parameters.der).ok
     /\ last.value.subject_public_key.unused_bits = 0
     /\ UintRef_from_der(last.value.subject_public_key.bytes).ok
     /\ LET c == Components_decode(last.value.parameters.der).components
            y == UintRef_from_der(last.value.subject_public_key.bytes).inner
        IN  BelowTwo(y) \/ YPowQ(y, c) # 1)
    => (last.ret = "Err(KeyMalformed)" /\ last.out = NoKey)

\* C10: a container whose algorithm identifier is not the DSA object
\* identifier is answered with a decode error and no key, whatever its other
\* fields hold.
C10_ForeignOidRejected ==
    (last.op = "try_from" /\ last.value.oid # OID)
    => (last.ret = "Err(OidUnknown)" /\ last.out = NoKey)

\* C10 witness: a container was rejected for its identifier whose other
\* fields alone would have made the decoder abort.
C10_Witness ==
    /\ last.op = "try_from"
    /\ last.value.oid # OID
    /\ last.ret = "Err(OidUnknown)"
    /\ try_from([last.value EXCEPT !.oid = OID]).tag = "panic"

====
